---- MODULE Spec2Model ----
(***************************************************************************)
(* Tera Monitor dashboard (src/app.py, src/app_v2.py): one Streamlit       *)
(* script, re-executed top to bottom on every user interaction.            *)
(*                                                                         *)
(* A run is modelled as the script's position pc walking through its       *)
(* statement blocks: reload -> load -> check -> window -> filter ->        *)
(* fallback -> select -> options -> resample -> normalize -> present ->    *)
(* done, or halted by st.stop()/an uncaught exception.                     *)
(*                                                                         *)
(* Scales.  Data timestamps are instants counted in units of 5 minutes     *)
(* since the epoch (the finest resample interval of the program); the      *)
(* cache clock counts seconds.  Cell values are exact rationals <<n, d>>   *)
(* (pandas uses float64; rounding is outside this model).                  *)
(***************************************************************************)
EXTENDS Integers, Sequences, FiniteSets, TLC

VARIABLES
    variant,        \* "app" (src/app.py) or "app_v2" (src/app_v2.py)
    now,            \* wall clock of the server, seconds
    remote,         \* what each URL currently serves
    cache,          \* st.cache_data store of load_data, keyed by url
    CSV_URL,        \* the source URL of the session
    reload_btn,     \* value of the reload button in the current run
    pc,             \* position of the current script run
    fetched,        \* the current run's load_data call ran pd.read_csv
    must_refetch,   \* urls not fetched again since the last load_data.clear()
    error,          \* "" | "exception" | "csv_vuoto"
    df,             \* the loaded Reading table
    start_utc, end_utc,
    dff,            \* filtered (then resampled) frame
    warned,         \* st.warning of the empty window was shown
    vars_selected,
    resample,
    normalize,
    plot_df,        \* chart-facing copy
    chart,          \* what px.line was given, or the info notice
    kpis,
    table_shown,    \* dff[cols_to_show]
    csv             \* the download button's payload

vars == << variant, now, remote, cache, CSV_URL, reload_btn, pc, fetched,
           must_refetch, error, df, start_utc, end_utc, dff, warned,
           vars_selected, resample, normalize, plot_df, chart, kpis,
           table_shown, csv >>

----------------------------------------------------------------------------
(* Cell values                                                             *)

RECURSIVE GCD(_, _)
GCD(a, b) == IF b = 0 THEN a ELSE GCD(b, a % b)

Abs(x) == IF x < 0 THEN -x ELSE x

\* A rational n/d in lowest terms with d > 0.
Rat(n, d) ==
    LET s == IF d < 0 THEN -1 ELSE 1
        g == GCD(Abs(n), Abs(d))
    IN  << (s * n) \div g, (s * d) \div g >>

Num(k) == << k, 1 >>
NaN == << 0, 0 >>            \* missing value
Txt(k) == << k, -1 >>        \* k-th non-numeric string
IsNum(v) == v[2] > 0
IsText(v) == v[2] < 0
notna(v) == v # NaN

RSub(a, b) == IF IsNum(a) /\ IsNum(b)
              THEN Rat(a[1] * b[2] - b[1] * a[2], a[2] * b[2]) ELSE NaN
RAdd(a, b) == IF IsNum(a) /\ IsNum(b)
              THEN Rat(a[1] * b[2] + b[1] * a[2], a[2] * b[2]) ELSE NaN
RMul(a, b) == IF IsNum(a) /\ IsNum(b)
              THEN Rat(a[1] * b[1], a[2] * b[2]) ELSE NaN
\* float division: x/0 is +-inf (<<+-1, 0>>), 0/0 is NaN
RDiv(a, b) == IF ~(IsNum(a) /\ IsNum(b)) THEN NaN
              ELSE IF b[1] = 0
                   THEN << (IF a[1] > 0 THEN 1 ELSE IF a[1] < 0 THEN -1 ELSE 0), 0 >>
                   ELSE Rat(a[1] * b[2], a[2] * b[1])
RLe(a, b) == a[1] * b[2] <= b[1] * a[2]

RMax(S) == IF S = {} THEN NaN ELSE CHOOSE m \in S : \A x \in S : RLe(x, m)
RMin(S) == IF S = {} THEN NaN ELSE CHOOSE m \in S : \A x \in S : RLe(m, x)

Range(s) == { s[i] : i \in DOMAIN s }

----------------------------------------------------------------------------
(* Frames: [cols, dtype, rows]; a row is [ts, v] with v a function on cols *)

NaT == -1
EmptyFrame == [cols |-> << >>, dtype |-> [c \in {} |-> "num"], rows |-> << >>]

Column(f, c) == [i \in DOMAIN f.rows |-> f.rows[i].v[c]]
numeric_values(f, c) == { x \in Range(Column(f, c)) : IsNum(x) }
nunique(f, c) == Cardinality({ x \in Range(Column(f, c)) : notna(x) })
IsSortedByTs(rows) ==
    \A i \in 1..(Len(rows) - 1) : rows[i].ts <= rows[i + 1].ts
Index(s, x) == CHOOSE i \in DOMAIN s : s[i] = x

\* pd.read_csv: a column is numeric when every cell is a number or empty
read_csv(raw) ==
    [cols  |-> raw.cols,
     dtype |-> [c \in Range(raw.cols) |->
                  IF \A r \in Range(raw.rows) : ~IsText(r.v[c])
                  THEN "num" ELSE "obj"],
     rows  |-> raw.rows]

\* pd.to_datetime(utc=True, errors='coerce') of one cell <<wall, offset>>:
\* the instant in UTC, NaT for anything that does not parse
BadTs == << -1, 0 >>
to_datetime(x) == IF x[1] < 0 THEN NaT ELSE x[1] - x[2]

dropna_ts(rows) == SelectSeq(rows, LAMBDA r : r.ts # NaT)

\* (variant of sort_values_ts that leaves the file order)
unsorted(rows) == { rows }
\* sort_values('ts') (quicksort, not stable): any ordering of the rows that
\* is non-decreasing in ts
sort_values_ts(rows) ==
    LET n == Len(rows)
    IN  { t \in { [i \in 1..n |-> rows[p[i]]] : p \in Permutations(1..n) } :
            IsSortedByTs(t) }

\* load_data: the frames it may return for a fetched body
load_data(raw) ==
    LET f0     == read_csv(raw)
        parsed == [i \in DOMAIN f0.rows |->
                     [ts |-> to_datetime(f0.rows[i].ts), v |-> f0.rows[i].v]]
    IN  { [cols |-> f0.cols, dtype |-> f0.dtype, rows |-> t] :
            t \in sort_values_ts(dropna_ts(parsed)) }

----------------------------------------------------------------------------
(* Column sets                                                             *)

Take(s, n) == SubSeq(s, 1, IF n < Len(s) THEN n ELSE Len(s))

\* list(dict.fromkeys(s)): first occurrences, in order
RECURSIVE fromkeys(_)
fromkeys(s) ==
    IF s = << >> THEN << >>
    ELSE LET r == fromkeys(SubSeq(s, 1, Len(s) - 1))
             x == s[Len(s)]
         IN  IF x \in Range(r) THEN r ELSE Append(r, x)

\* what a multiselect can return: the chosen options, in the order chosen
RECURSIVE Arrangements(_)
Arrangements(S) ==
    {<< >>} \cup UNION { { <<x>> \o t : t \in Arrangements(S \ {x}) } : x \in S }

is_numeric_dtype(f, c) == c \in DOMAIN f.dtype /\ f.dtype[c] = "num"
num_cols(f) == SelectSeq(f.cols, LAMBDA c : is_numeric_dtype(f, c))

Canonical == << "A01_Temp", "A01_Umid" >>
default_vars(f) ==
    LET d == SelectSeq(Canonical, LAMBDA c : c \in Range(num_cols(f)))
    IN  IF d # << >> THEN d ELSE Take(num_cols(f), 2)

numeric_in_window(f, w) == SelectSeq(num_cols(f), LAMBDA c : c \in Range(w.cols))
uni_vars(f, w) == SelectSeq(numeric_in_window(f, w), LAMBDA c : nunique(w, c) <= 1)
nonuni_vars(f, w) == SelectSeq(numeric_in_window(f, w), LAMBDA c : nunique(w, c) > 1)

\* what the variable multiselects can hand to the pipeline: app.py merges
\* the picks of its two tabs, app_v2.py offers the varying columns only
selections(var, f, w) ==
    IF var = "app"
    THEN { fromkeys(nonuni_selected \o uni_selected) :
             nonuni_selected \in Arrangements(Range(nonuni_vars(f, w))),
             uni_selected \in Arrangements(Range(uni_vars(f, w))) }
    ELSE Arrangements(Range(nonuni_vars(f, w)))

----------------------------------------------------------------------------
(* Time window                                                             *)

UnitsPerHour == 60 \div 5

TsSet(f) == { f.rows[i].ts : i \in DOMAIN f.rows }
min_ts(f) == IF f.rows = << >> THEN NaT
             ELSE CHOOSE m \in TsSet(f) : \A t \in TsSet(f) : m <= t
max_ts(f) == IF f.rows = << >> THEN NaT
             ELSE CHOOSE m \in TsSet(f) : \A t \in TsSet(f) : t <= m

\* a datetime: wall clock reading, and its UTC offset when it is tz-aware
to_naive(t) == [wall |-> t, aware |-> FALSE, off |-> 0]
ensure_ts_utc(x) == IF ~x.aware THEN x.wall ELSE x.wall - x.off
before(x, span) == [x EXCEPT !.wall = @ - span]

Presets == { "Ultime 6 ore", "Ultime 12 ore", "Ultime 24 ore",
             "Ultimi 3 giorni", "Ultimi 7 giorni", "Personalizzato" }
preset_span(p) ==
    CASE p = "Ultime 6 ore"    -> 6 * UnitsPerHour
      [] p = "Ultime 12 ore"   -> 12 * UnitsPerHour
      [] p = "Ultime 24 ore"   -> 24 * UnitsPerHour
      [] p = "Ultimi 3 giorni" -> 3 * 24 * UnitsPerHour
      [] p = "Ultimi 7 giorni" -> 7 * 24 * UnitsPerHour
      [] OTHER                 -> 24 * UnitsPerHour

\* (variant of mask with an exclusive upper bound)
mask_open_end(f, s, e) == [i \in DOMAIN f.rows |-> f.rows[i].ts >= s /\ f.rows[i].ts < e]
\* mask = (df['ts'] >= start_utc) & (df['ts'] <= end_utc)
mask(f, s, e) == [i \in DOMAIN f.rows |-> f.rows[i].ts >= s /\ f.rows[i].ts <= e]
\* df.loc[mask]
loc(f, m) ==
    LET n   == Len(f.rows)
        idx == SelectSeq([i \in 1..n |-> i], LAMBDA i : m[i])
    IN  [f EXCEPT !.rows = [k \in DOMAIN idx |-> f.rows[idx[k]]]]
\* (variant of tail1 taking the first row, df.head(1))
head1(f) == [f EXCEPT !.rows = IF f.rows = << >> THEN << >> ELSE << f.rows[1] >>]
\* df.tail(1)
tail1(f) == [f EXCEPT !.rows = IF f.rows = << >> THEN << >>
                               ELSE << f.rows[Len(f.rows)] >>]

----------------------------------------------------------------------------
(* Resampling                                                              *)

ResampleOptions == { "nessuna", "5min", "15min", "1H", "3H", "6H" }
interval(o) ==
    CASE o = "5min"  -> 1
      [] o = "15min" -> 3
      [] o = "1H"    -> UnitsPerHour
      [] o = "3H"    -> 3 * UnitsPerHour
      [] o = "6H"    -> 6 * UnitsPerHour
      [] OTHER       -> 0

RECURSIVE sum_cells(_, _, _)
sum_cells(f, c, I) ==
    IF I = {} THEN Num(0)
    ELSE LET i == CHOOSE i \in I : TRUE
         IN  RAdd(f.rows[i].v[c], sum_cells(f, c, I \ {i}))

\* Series.mean(): the mean of the cells that are not missing, NaN when none is
mean(f, c, I) ==
    LET J == { i \in I : IsNum(f.rows[i].v[c]) }
    IN  IF J = {} THEN NaN ELSE RDiv(sum_cells(f, c, J), Num(Cardinality(J)))

\* (variant of bin_of that anchors the bins at the first row, origin='start')
bin_unaligned(t, I) == t
\* first bin edge: every offered interval divides a day, so the bins that
\* pandas anchors at midnight of the first day lie on the epoch grid
bin_of(t, I) == (t \div I) * I

\* f.set_index('ts').resample(o).mean(numeric_only=True).reset_index()
resample_mean(f, o) ==
    LET I     == interval(o)
        nc    == num_cols(f)
        first == bin_of(f.rows[1].ts, I)
        last  == bin_of(f.rows[Len(f.rows)].ts, I)
        nb    == (last - first) \div I + 1
    IN  [cols  |-> nc,
         dtype |-> [c \in Range(nc) |-> "num"],
         rows  |-> [k \in 1..nb |->
                      LET b == first + (k - 1) * I
                          M == { i \in DOMAIN f.rows :
                                   b <= f.rows[i].ts /\ f.rows[i].ts < b + I }
                      IN  [ts |-> b, v |-> [c \in Range(nc) |-> mean(f, c, M)]]]]

----------------------------------------------------------------------------
(* Normalization                                                           *)

\* (variant of scale_column without the rng != 0 test)
scale_column_unguarded(f, c) ==
    IF c \notin Range(f.cols) THEN f
    ELSE LET mx  == RMax(numeric_values(f, c))
             mn  == RMin(numeric_values(f, c))
             rng == RSub(mx, mn)
         IN  IF notna(rng)
             THEN [f EXCEPT !.rows = [i \in DOMAIN f.rows |->
                     [f.rows[i] EXCEPT !.v[c] = RDiv(RSub(@, mn), rng)]]]
             ELSE f

\* the loop body for one column c
scale_column(f, c) ==
    IF c \notin Range(f.cols) THEN f
    ELSE LET mx  == RMax(numeric_values(f, c))
             mn  == RMin(numeric_values(f, c))
             rng == RSub(mx, mn)
         IN  IF notna(rng) /\ rng # Num(0)
             THEN [f EXCEPT !.rows = [i \in DOMAIN f.rows |->
                     [f.rows[i] EXCEPT !.v[c] = RDiv(RSub(@, mn), rng)]]]
             ELSE f

RECURSIVE scale_columns(_, _)
scale_columns(f, sel) ==
    IF sel = << >> THEN f
    ELSE scale_columns(scale_column(f, Head(sel)), Tail(sel))

----------------------------------------------------------------------------
(* Presentation                                                            *)

\* f[cols]
project(f, cs) ==
    [cols  |-> cs,
     dtype |-> [c \in Range(cs) |-> f.dtype[c]],
     rows  |-> [i \in DOMAIN f.rows |->
                  [ts |-> f.rows[i].ts, v |-> [c \in Range(cs) |-> f.rows[i].v[c]]]]]

cols_to_show(var, f, w, sel) ==
    LET picked == SelectSeq(sel, LAMBDA c : c \in Range(w.cols))
    IN  IF var = "app" /\ picked = << >>
        THEN Take(SelectSeq(num_cols(f), LAMBDA c : c \in Range(w.cols)), 5)
        ELSE picked

\* f.to_csv(index=False): the header, then one line per row, cell by cell
to_csv(f) ==
    [header |-> << "ts" >> \o f.cols,
     lines  |-> [i \in DOMAIN f.rows |->
                   << Num(f.rows[i].ts) >> \o
                   [k \in DOMAIN f.cols |-> f.rows[i].v[f.cols[k]]]]]

last_val(w, c) == IF c \in Range(w.cols) /\ is_numeric_dtype(w, c)
                  THEN w.rows[Len(w.rows)].v[c] ELSE NaN
kpi_values(f, w) ==
    LET shown == Take(SelectSeq(default_vars(f), LAMBDA c : c \in Range(w.cols)), 4)
    IN  [i \in DOMAIN shown |-> << shown[i], last_val(w, shown[i]) >>]

NoCsv == [header |-> << >>, lines |-> << >>]
NoChart == [y |-> << >>, data |-> EmptyFrame]

----------------------------------------------------------------------------
(* The world outside: sources, cache entries                               *)

Urls == { "u1", "u2" }

TTL == 60

NoTable == [cols |-> << >>, rows |-> << >>]
Unreachable == [kind |-> "unreachable", table |-> NoTable]   \* read_csv raises
Unparseable == [kind |-> "unparseable", table |-> NoTable]   \* no usable 'ts' column
Body(t) == [kind |-> "ok", table |-> t]

NoEntry == [present |-> FALSE, df |-> EmptyFrame, t |-> 0]
Entry(f, at) == [present |-> TRUE, df |-> f, t |-> at]

\* Inputs of the page runs: bodies of at most MaxRows lines over three
\* columns, with an unparseable ts, tz offsets, equal instants, any order
MaxRows == 3
MainCols == << "A01_Temp", "B", "note" >>
MainRow(t, x) == [ts |-> t, v |-> [A01_Temp |-> Num(x), B |-> Num(5), note |-> Txt(1)]]
MainRows == { MainRow(BadTs, 10), MainRow(<<48, 0>>, 10),
              MainRow(<<146, 12>>, 10), MainRow(<<134, 0>>, 20) }
MainSources ==
    { Unreachable, Unparseable } \cup
    { Body([cols |-> MainCols, rows |-> s]) :
        s \in UNION { [1..n -> MainRows] : n \in 0..MaxRows } }
\* instants the user may type into the custom window inputs
CustomInstants == { 48, 100, 134 }

----------------------------------------------------------------------------
(* Script runs                                                             *)

FreshRun ==
    /\ fetched' = FALSE
    /\ error' = ""
    /\ df' = EmptyFrame
    /\ start_utc' = NaT
    /\ end_utc' = NaT
    /\ dff' = EmptyFrame
    /\ warned' = FALSE
    /\ vars_selected' = << >>
    /\ resample' = "nessuna"
    /\ normalize' = FALSE
    /\ plot_df' = EmptyFrame
    /\ chart' = NoChart
    /\ kpis' = << >>
    /\ table_shown' = EmptyFrame
    /\ csv' = NoCsv

Outputs == << chart, kpis, table_shown, csv >>
World == << variant, now, remote, CSV_URL >>
Frames == << df, start_utc, end_utc, dff, warned, vars_selected, resample,
             normalize, plot_df >>

Blank ==
    /\ fetched = FALSE
    /\ error = ""
    /\ df = EmptyFrame
    /\ start_utc = NaT
    /\ end_utc = NaT
    /\ dff = EmptyFrame
    /\ warned = FALSE
    /\ vars_selected = << >>
    /\ resample = "nessuna"
    /\ normalize = FALSE
    /\ plot_df = EmptyFrame
    /\ chart = NoChart
    /\ kpis = << >>
    /\ table_shown = EmptyFrame
    /\ csv = NoCsv

\* the session opens: nothing cached, first run about to start
Init ==
    /\ variant \in { "app", "app_v2" }
    /\ now = 0
    /\ \E src \in MainSources :
         remote = [u \in Urls |-> IF u = "u1" THEN src ELSE Unreachable]
    /\ cache = [u \in Urls |-> NoEntry]
    /\ CSV_URL = "u1"
    /\ reload_btn = FALSE
    /\ pc = "reload"
    /\ must_refetch = {}
    /\ Blank

\* Any interaction of the user makes Streamlit run the script again from the
\* top (stopping a run in progress); the reload button reads True only in the
\* run its click started.
UserRerun(clicked) ==
    /\ pc' = "reload"
    /\ reload_btn' = clicked
    /\ FreshRun
    /\ UNCHANGED << World, cache, must_refetch >>

\* if reload_btn: load_data.clear(); st.experimental_rerun()
ReloadStep ==
    /\ pc = "reload"
    /\ IF reload_btn
       THEN /\ cache' = [u \in Urls |-> NoEntry]
            /\ must_refetch' = Urls
            /\ reload_btn' = FALSE
            /\ pc' = "reload"
       ELSE /\ pc' = "load"
            /\ UNCHANGED << cache, must_refetch, reload_btn >>
    /\ UNCHANGED << World, fetched, error, Frames, Outputs >>

\* (variant of cache_hit that still serves an entry aged exactly TTL)
cache_hit_inclusive(e, at) == e.present /\ at - e.t <= TTL
\* an entry is served while the cache's timer is before its expiry
cache_hit(e, at) == e.present /\ at - e.t < TTL

\* df = load_data(CSV_URL) under @st.cache_data(ttl=60)
LoadStep ==
    /\ pc = "load"
    /\ IF cache_hit(cache[CSV_URL], now)
       THEN /\ df' = cache[CSV_URL].df
            /\ pc' = "check"
            /\ UNCHANGED << cache, must_refetch, fetched, error >>
       ELSE /\ fetched' = TRUE
            /\ IF remote[CSV_URL].kind # "ok"
               THEN /\ error' = "exception"
                    /\ pc' = "halted"
                    /\ cache' = [cache EXCEPT ![CSV_URL] = NoEntry]
                    /\ UNCHANGED << df, must_refetch >>
               ELSE /\ \E d \in load_data(remote[CSV_URL].table) :
                         /\ df' = d
                         /\ cache' = [cache EXCEPT ![CSV_URL] = Entry(d, now)]
                    /\ must_refetch' = must_refetch \ { CSV_URL }
                    /\ pc' = "check"
                    /\ UNCHANGED error
    /\ UNCHANGED << World, reload_btn, start_utc, end_utc, dff, warned,
                    vars_selected, resample, normalize, plot_df, Outputs >>

\* (variant of CheckStep that reports the error and goes on, without st.stop())
CheckStepNoStop ==
    /\ pc = "check"
    /\ error' = IF df.rows = << >> THEN "csv_vuoto" ELSE error
    /\ pc' = "window"
    /\ UNCHANGED << World, cache, must_refetch, reload_btn, fetched, Frames, Outputs >>

\* if df.empty or df['ts'].isna().all(): st.error(...); st.stop()
CheckStep ==
    /\ pc = "check"
    /\ IF df.rows = << >> \/ \A i \in DOMAIN df.rows : df.rows[i].ts = NaT
       THEN error' = "csv_vuoto" /\ pc' = "halted"
       ELSE pc' = "window" /\ UNCHANGED error
    /\ UNCHANGED << World, cache, must_refetch, reload_btn, fetched, Frames, Outputs >>

\* preset selectbox, the two datetime inputs, ensure_ts_utc
WindowStep ==
    /\ pc = "window"
    /\ \E preset \in Presets :
         LET max_naive == to_naive(max_ts(df))
             lo == min_ts(df)
             hi == max_ts(df)
         IN  IF preset = "Personalizzato"
             THEN \E s, e \in { t \in CustomInstants : lo <= t /\ t <= hi } :
                    /\ start_utc' = ensure_ts_utc(to_naive(s))
                    /\ end_utc' = ensure_ts_utc(to_naive(e))
             ELSE /\ start_utc' = ensure_ts_utc(before(max_naive, preset_span(preset)))
                  /\ end_utc' = ensure_ts_utc(max_naive)
    /\ pc' = "filter"
    /\ UNCHANGED << World, cache, must_refetch, reload_btn, fetched, error, df,
                    dff, warned, vars_selected, resample, normalize, plot_df,
                    Outputs >>

\* mask = ...; dff = df.loc[mask].copy()
FilterStep ==
    /\ pc = "filter"
    /\ dff' = loc(df, mask(df, start_utc, end_utc))
    /\ pc' = "fallback"
    /\ UNCHANGED << World, cache, must_refetch, reload_btn, fetched, error, df,
                    start_utc, end_utc, warned, vars_selected, resample,
                    normalize, plot_df, Outputs >>

\* if dff.empty: st.warning(...); dff = df.tail(1)
FallbackStep ==
    /\ pc = "fallback"
    /\ IF dff.rows = << >>
       THEN warned' = TRUE /\ dff' = tail1(df)
       ELSE UNCHANGED << warned, dff >>
    /\ pc' = "select"
    /\ UNCHANGED << World, cache, must_refetch, reload_btn, fetched, error, df,
                    start_utc, end_utc, vars_selected, resample, normalize,
                    plot_df, Outputs >>

\* vars_selected out of the multiselects
\* (start_utc and end_utc are not read from here on and are dropped)
SelectStep ==
    /\ pc = "select"
    /\ vars_selected' \in selections(variant, df, dff)
    /\ start_utc' = NaT
    /\ end_utc' = NaT
    /\ pc' = "options"
    /\ UNCHANGED << World, cache, must_refetch, reload_btn, fetched, error, df,
                    dff, warned, resample, normalize, plot_df, Outputs >>

\* resample selectbox, normalize checkbox
OptionsStep ==
    /\ pc = "options"
    /\ resample' \in ResampleOptions
    /\ normalize' \in BOOLEAN
    /\ pc' = "resample"
    /\ UNCHANGED << World, cache, must_refetch, reload_btn, fetched, error, df,
                    start_utc, end_utc, dff, warned, vars_selected, plot_df,
                    Outputs >>

\* if resample != "nessuna" and not dff.empty: dff = dff...resample(...).mean(...)
ResampleStep ==
    /\ pc = "resample"
    /\ dff' = IF resample # "nessuna" /\ dff.rows # << >>
              THEN resample_mean(dff, resample) ELSE dff
    /\ pc' = "normalize"
    /\ UNCHANGED << World, cache, must_refetch, reload_btn, fetched, error, df,
                    start_utc, end_utc, warned, vars_selected, resample,
                    normalize, plot_df, Outputs >>

\* (variant of NormalizeStep without the copy: plot_df = dff, so that the
\* scaling writes through to dff)
NormalizeStepAliased ==
    /\ pc = "normalize"
    /\ plot_df' = IF normalize /\ vars_selected # << >>
                  THEN scale_columns(dff, vars_selected) ELSE dff
    /\ dff' = plot_df'
    /\ pc' = "present"
    /\ UNCHANGED << World, cache, must_refetch, reload_btn, fetched, error, df,
                    start_utc, end_utc, warned, vars_selected, resample,
                    normalize, Outputs >>

\* plot_df = dff.copy(); if normalize and vars_selected: for c in ...: ...
NormalizeStep ==
    /\ pc = "normalize"
    /\ plot_df' = IF normalize /\ vars_selected # << >>
                  THEN scale_columns(dff, vars_selected) ELSE dff
    /\ pc' = "present"
    /\ UNCHANGED << World, cache, must_refetch, reload_btn, fetched, error, df,
                    start_utc, end_utc, dff, warned, vars_selected, resample,
                    normalize, Outputs >>

\* charts, KPIs, data table, download button
PresentStep ==
    /\ pc = "present"
    /\ chart' = IF vars_selected = << >> THEN NoChart
                ELSE [y |-> vars_selected, data |-> project(plot_df, vars_selected)]
    /\ kpis' = kpi_values(df, dff)
    /\ table_shown' = project(dff, cols_to_show(variant, df, dff, vars_selected))
    /\ csv' = to_csv(dff)
    /\ pc' = "done"
    /\ UNCHANGED << World, cache, must_refetch, reload_btn, fetched, error, Frames >>

Next ==
    \/ \E clicked \in BOOLEAN : UserRerun(clicked)
    \/ ReloadStep
    \/ LoadStep
    \/ CheckStep
    \/ WindowStep
    \/ FilterStep
    \/ FallbackStep
    \/ SelectStep
    \/ OptionsStep
    \/ ResampleStep
    \/ NormalizeStep
    \/ PresentStep

Spec == Init /\ [][Next]_vars

----------------------------------------------------------------------------
(* Properties of the page runs (specification Spec)                        *)

Count(s, x) == Cardinality({ i \in DOMAIN s : s[i] = x })
InWindow(t) == start_utc <= t /\ t <= end_utc
AfterFallback == { "select", "options", "resample", "normalize", "present", "done" }
ScriptStep ==
    \/ ReloadStep \/ LoadStep \/ CheckStep \/ WindowStep \/ FilterStep
    \/ FallbackStep \/ SelectStep \/ OptionsStep \/ ResampleStep
    \/ NormalizeStep \/ PresentStep

\* C1: right after the filter, dff holds exactly the rows of df whose ts lies
\* in [start_utc, end_utc], both bounds included: no row outside the window,
\* every row inside it as often as in df; an inverted window selects no row,
\* and the fallback then warns and puts one row in dff.
C1_FilterExact ==
    /\ pc = "fallback" =>
         /\ \A r \in Range(dff.rows) : InWindow(r.ts) /\ r \in Range(df.rows)
         /\ \A r \in Range(df.rows) :
              InWindow(r.ts) => Count(dff.rows, r) = Count(df.rows, r)
         /\ start_utc > end_utc => dff.rows = << >>
    /\ pc = "select" /\ start_utc > end_utc => warned /\ Len(dff.rows) = 1

C1_Witness ==
    /\ pc = "fallback"
    /\ Len(df.rows) = 3
    /\ Len(dff.rows) = 1
    /\ dff.rows[1].ts = end_utc
    /\ start_utc > 48

C1_WitnessInverted == pc = "select" /\ start_utc > end_utc /\ warned

\* C2: after a successful load every stage after the filter gets a frame of
\* at least one row; when the window matched no row that frame is the single
\* last row of df, which carries the maximum ts, the warning is shown, and
\* the run goes on to present instead of halting.
C2_FallbackLastRow ==
    /\ pc \in AfterFallback => Len(dff.rows) >= 1 /\ error = ""
    /\ pc = "select" =>
         IF \A r \in Range(df.rows) : ~InWindow(r.ts)
         THEN /\ warned
              /\ dff.rows = << df.rows[Len(df.rows)] >>
              /\ dff.rows[1].ts = max_ts(df)
         ELSE ~warned
    /\ pc = "done" /\ warned => Len(csv.lines) >= 1 /\ Len(table_shown.rows) >= 1

C2_Witness ==
    /\ pc = "done"
    /\ warned
    /\ Len(df.rows) = 3
    /\ df.rows[1].ts < df.rows[3].ts
    /\ Len(csv.lines) = 1

\* C3: load_data returns exactly the rows of the body whose ts parses (none
\* added, none lost, unparseable ones gone), non-decreasing in ts, and every
\* frame the later stages read is non-decreasing in ts too.
C3_LoadValidSorted ==
    LET raw   == remote[CSV_URL].table.rows
        valid == { i \in DOMAIN raw : raw[i].ts # BadTs }
    IN  /\ pc \notin { "reload", "load" } /\ error # "exception" =>
             /\ Len(df.rows) = Cardinality(valid)
             /\ \A r \in Range(df.rows) :
                  /\ r.ts # NaT
                  /\ Count(df.rows, r) =
                       Cardinality({ i \in valid :
                           raw[i].ts[1] - raw[i].ts[2] = r.ts /\ raw[i].v = r.v })
        /\ IsSortedByTs(df.rows)
        /\ IsSortedByTs(dff.rows)
        /\ IsSortedByTs(plot_df.rows)
        /\ IsSortedByTs(chart.data.rows)
        /\ IsSortedByTs(table_shown.rows)

C3_Witness ==
    LET raw == remote[CSV_URL].table.rows
    IN  /\ pc = "check"
        /\ Len(raw) = 3
        /\ Len(df.rows) = 2
        /\ raw[1].ts = << 134, 0 >>
        /\ raw[2].ts = BadTs
        /\ raw[3].ts = << 48, 0 >>

\* C7: the normalization step writes plot_df only: dff, from which the data
\* table, the KPIs and the CSV are produced, is the same after the step as
\* before it, with normalize on or off; presenting does not change it either.
C7_NormalizeKeepsDff ==
    [][ (pc = "normalize" /\ pc' = "present") \/ (pc = "present" /\ pc' = "done")
          => dff' = dff ]_vars

C7_Witness ==
    /\ pc = "done"
    /\ normalize
    /\ plot_df # dff
    /\ csv = to_csv(dff)

\* C8: the exported CSV has the timestamp column plus exactly the selected
\* columns (the columns of the displayed table), a header line and one line
\* per row of dff.
C8_ExportSelectedColumns ==
    pc = "done" =>
        /\ csv.header = << "ts" >> \o table_shown.cols
        /\ Len(csv.lines) = Len(dff.rows)

\* C10: when the source is unreachable or unparseable, or holds no row with
\* a valid ts, the run ends halted with an error shown, none of the stages
\* from the window selection on has run (no frame, no output), and nothing
\* but a new interaction of the user starts another fetch.
C10_FatalLoadHalts ==
    LET src == remote[CSV_URL]
        bad == \/ src.kind # "ok"
               \/ \A r \in Range(src.table.rows) : r.ts = BadTs
    IN  /\ bad /\ pc \notin { "reload", "load", "check" } =>
              /\ pc = "halted"
              /\ error # ""
              /\ dff = EmptyFrame /\ plot_df = EmptyFrame
              /\ vars_selected = << >>
              /\ Outputs = << NoChart, << >>, EmptyFrame, NoCsv >>
        /\ pc = "halted" => ~ENABLED ScriptStep

C10_Witness ==
    /\ pc = "halted"
    /\ error = "csv_vuoto"
    /\ Len(remote[CSV_URL].table.rows) = 2

C10_WitnessException == pc = "halted" /\ error = "exception"

----------------------------------------------------------------------------
(* The normalization stage on its own (specification SpecNormalize): runs  *)
(* that have reached the stage with a frame of up to MaxNormRows rows whose *)
(* columns vary, are constant with a gap, or are entirely missing          *)

MaxNormRows == 3
NormCols == << "A01_Temp", "B", "C" >>
NormVals == { NaN, Num(-10), Rat(5, 2), Num(40) }
NormBodies ==
    UNION { { [cols |-> NormCols,
               rows |-> [k \in 1..n |->
                  [ts |-> << k, 0 >>,
                   v  |-> [A01_Temp |-> x[k],
                           B |-> IF k = 2 THEN NaN ELSE Num(5),
                           C |-> NaN]]]] :
              x \in [1..n -> NormVals] } : n \in 1..MaxNormRows }

\* a run that loaded f, kept all of it in the window, and has gone through
\* the stages before `at`
MidRun(f, src, at) ==
    /\ now = 0
    /\ remote = [u \in Urls |-> IF u = "u1" THEN Body(src) ELSE Unreachable]
    /\ cache = [u \in Urls |-> IF u = "u1" THEN Entry(f, 0) ELSE NoEntry]
    /\ CSV_URL = "u1"
    /\ reload_btn = FALSE
    /\ must_refetch = {}
    /\ fetched = TRUE
    /\ error = ""
    /\ df = f
    /\ dff = f
    /\ warned = FALSE
    /\ pc = at
    /\ plot_df = EmptyFrame
    /\ chart = NoChart
    /\ kpis = << >>
    /\ table_shown = EmptyFrame
    /\ csv = NoCsv

InitNormalize ==
    /\ variant \in { "app", "app_v2" }
    /\ \E src \in NormBodies : \E f \in load_data(src) :
         /\ MidRun(f, src, "normalize")
         /\ vars_selected \in selections(variant, f, f)
    /\ start_utc = NaT
    /\ end_utc = NaT
    /\ resample = "nessuna"
    /\ normalize \in BOOLEAN

SpecNormalize == InitNormalize /\ [][NormalizeStep \/ PresentStep]_vars

Cells(f, c) == { f.rows[i].v[c] : i \in DOMAIN f.rows }

\* C5: for every selected column of the frame with normalize on, when the
\* values present have max # min every value v becomes (v - min)/(max - min)
\* (so scaled * (max - min) + min gives v back), min becomes 0, max becomes 1,
\* all scaled values lie in [0, 1] and a missing cell stays missing; when
\* max = min or no value is present, and for every column not selected, the
\* column is left as it was; no cell is the result of a division by zero.
C5_NormalizeScales ==
    pc \in { "present", "done" } =>
      /\ plot_df.cols = dff.cols
      /\ Len(plot_df.rows) = Len(dff.rows)
      /\ \A i \in DOMAIN dff.rows : plot_df.rows[i].ts = dff.rows[i].ts
      /\ \A c \in Range(dff.cols) :
           LET vals == { x \in Cells(dff, c) : IsNum(x) }
           IN  IF normalize /\ c \in Range(vars_selected)
                  /\ \E a, b \in vals : a # b
               THEN \E mn, mx \in vals :
                      /\ \A x \in vals : RLe(mn, x) /\ RLe(x, mx)
                      /\ \A i \in DOMAIN dff.rows :
                           LET v == dff.rows[i].v[c]
                               q == plot_df.rows[i].v[c]
                           IN  IF IsNum(v)
                               THEN /\ IsNum(q)
                                    /\ RAdd(RMul(q, RSub(mx, mn)), mn) = v
                                    /\ RLe(Num(0), q) /\ RLe(q, Num(1))
                                    /\ v = mn => q = Num(0)
                                    /\ v = mx => q = Num(1)
                               ELSE q = v
               ELSE \A i \in DOMAIN dff.rows :
                      plot_df.rows[i].v[c] = dff.rows[i].v[c]

C5_Witness ==
    /\ pc = "present"
    /\ normalize
    /\ vars_selected = << "A01_Temp", "B", "C" >>
    /\ Len(dff.rows) = 3
    /\ Column(dff, "A01_Temp") = << Num(-10), Rat(5, 2), Num(40) >>
    /\ Column(plot_df, "A01_Temp") = << Num(0), Rat(1, 4), Num(1) >>
    /\ Column(plot_df, "B") = << Num(5), NaN, Num(5) >>

C5_WitnessConstant ==
    /\ pc = "present"
    /\ normalize
    /\ vars_selected = << "A01_Temp" >>
    /\ Column(dff, "A01_Temp") = << Num(40), NaN, Num(40) >>
    /\ plot_df = dff

----------------------------------------------------------------------------
(* The resampling stage on its own (specification SpecResample): runs that *)
(* have reached the stage with up to MaxResRows rows at 10:05, 10:50,      *)
(* 11:10 and 13:10, values 10, 20, 30 or missing, a constant and a text     *)
(* column                                                                  *)

MaxResRows == 3
ResCols == << "Temp", "B", "note" >>
ResInstants == { 121, 130, 134, 158 }
ResVals == { NaN, Num(10), Num(20), Num(30) }
ResBodies ==
    UNION { { [cols |-> ResCols,
               rows |-> [k \in 1..n |->
                  [ts |-> << t[k], 0 >>,
                   v  |-> [Temp |-> x[k], B |-> Num(5), note |-> Txt(k)]]]] :
              t \in { u \in [1..n -> ResInstants] :
                        \A k \in 1..(n - 1) : u[k] <= u[k + 1] },
              x \in [1..n -> ResVals] } : n \in 1..MaxResRows }

InitResample ==
    /\ variant \in { "app", "app_v2" }
    /\ \E src \in ResBodies : \E f \in load_data(src) : MidRun(f, src, "resample")
    /\ start_utc = NaT
    /\ end_utc = NaT
    /\ vars_selected = << >>
    /\ resample \in ResampleOptions
    /\ normalize = FALSE

SpecResample == InitResample /\ [][ResampleStep]_vars

\* rows of f whose ts lies in [b, b + I) and whose cell in column c is present
Contributors(f, c, b, I) ==
    { i \in DOMAIN f.rows :
        b <= f.rows[i].ts /\ f.rows[i].ts < b + I /\ IsNum(f.rows[i].v[c]) }

\* C6: with an interval I other than "nessuna" the resampled frame has one
\* row per bin of the grid k*I between the bins of the first and the last
\* input row, every input row falls into the bin [k*I, (k+1)*I) holding its
\* ts, each numeric column of a bin is the arithmetic mean of the present
\* values of the rows in it (mean * count = sum), and is missing when no row
\* contributes; with "nessuna" the frame is unchanged.
C6_ResampleMeans ==
    [][ pc = "resample" /\ pc' = "normalize" =>
          IF resample = "nessuna"
          THEN dff' = dff
          ELSE LET I   == interval(resample)
                   out == dff'.rows
                   nc  == { c \in Range(dff.cols) : dff.dtype[c] = "num" }
               IN  /\ Range(dff'.cols) = nc
                   /\ \A k \in DOMAIN out : out[k].ts % I = 0
                   /\ \A k \in 1..(Len(out) - 1) : out[k + 1].ts = out[k].ts + I
                   /\ \A i \in DOMAIN dff.rows : \E k \in DOMAIN out :
                        out[k].ts <= dff.rows[i].ts /\ dff.rows[i].ts < out[k].ts + I
                   /\ out[1].ts <= dff.rows[1].ts /\ dff.rows[1].ts < out[1].ts + I
                   /\ out[Len(out)].ts <= dff.rows[Len(dff.rows)].ts
                   /\ \A k \in DOMAIN out : \A c \in nc :
                        LET M == Contributors(dff, c, out[k].ts, I)
                            m == out[k].v[c]
                        IN  IF M = {} THEN m = NaN
                            ELSE /\ IsNum(m)
                                 /\ RMul(m, Num(Cardinality(M))) = sum_cells(dff, c, M)
      ]_vars

\* the scenario of the specification: 10:05, 10:50, 11:10 with 10, 20, 30
\* at one hour gives 10:00 = 15 and 11:00 = 30
C6_Witness ==
    /\ pc = "normalize"
    /\ resample = "1H"
    /\ Column(df, "Temp") = << Num(10), Num(20), Num(30) >>
    /\ [i \in DOMAIN df.rows |-> df.rows[i].ts] = << 121, 130, 134 >>
    /\ [i \in DOMAIN dff.rows |-> dff.rows[i].ts] = << 120, 132 >>
    /\ Column(dff, "Temp") = << Num(15), Num(30) >>

\* an hour without rows between 11:10 and 13:10 is a row of missing values
C6_WitnessGap ==
    /\ pc = "normalize"
    /\ resample = "1H"
    /\ [i \in DOMAIN df.rows |-> df.rows[i].ts] = << 134, 158 >>
    /\ Column(df, "Temp") = << Num(10), Num(20) >>
    /\ [i \in DOMAIN dff.rows |-> dff.rows[i].ts] = << 132, 144, 156 >>
    /\ Column(dff, "Temp") = << Num(10), NaN, Num(20) >>
    /\ Column(dff, "B") = << Num(5), NaN, Num(5) >>

----------------------------------------------------------------------------
(* The variable selection on its own (specification SpecSelect): runs that *)
(* have reached the multiselects with a table of seven numeric columns,    *)
(* either all varying or four varying and three constant                   *)

WideCols == << "A01_Temp", "A01_Umid", "A02_Temp", "A02_Umid",
               "A03_Temp", "A03_Umid", "A04_Temp" >>
WideBody(varying) ==
    [cols |-> WideCols,
     rows |-> [k \in 1..2 |->
        [ts |-> << 120 + k, 0 >>,
         v  |-> [c \in Range(WideCols) |->
                   IF Index(WideCols, c) <= varying THEN Num(k) ELSE Num(7)]]]]

InitSelect ==
    /\ variant \in { "app", "app_v2" }
    /\ \E src \in { WideBody(4), WideBody(Len(WideCols)) } :
         \E f \in load_data(src) :
           /\ MidRun(f, src, "select")
           /\ start_utc = min_ts(f)
           /\ end_utc = max_ts(f)
    /\ vars_selected = << >>
    /\ resample = "nessuna"
    /\ normalize = FALSE

SpecSelect == InitSelect /\ [][SelectStep]_vars

\* C9: the selection handed to the pipeline has at most 6 entries, no
\* duplicates, only numeric non-timestamp columns, the varying picks before
\* the constant ones.
C9_SelectionCapped ==
    pc = "options" =>
      /\ Len(vars_selected) <= 6
      /\ \A i, j \in DOMAIN vars_selected :
           vars_selected[i] = vars_selected[j] => i = j
      /\ \A c \in Range(vars_selected) : c # "ts" /\ is_numeric_dtype(df, c)
      /\ \A i, j \in DOMAIN vars_selected :
           /\ vars_selected[i] \in Range(uni_vars(df, dff))
           /\ vars_selected[j] \in Range(nonuni_vars(df, dff))
           => j < i

----------------------------------------------------------------------------
(* The cache over time (specification SpecCache): runs up to the check of  *)
(* the loaded table, with the clock advancing, the sources changing, the   *)
(* user reloading and, in app.py, typing another URL.  The stages after    *)
(* the check read df only and touch neither cache nor clock; they are left *)
(* to Spec.                                                                *)

MaxNow == 120
TickSteps == { 30, 59 }
CacheBody(x) ==
    Body([cols |-> << "A01_Temp" >>,
          rows |-> << [ts |-> << 120, 0 >>, v |-> [A01_Temp |-> Num(x)]] >>])
CacheSources == { Unreachable, CacheBody(10), CacheBody(20) }

InitCache ==
    /\ variant \in { "app", "app_v2" }
    /\ now = 0
    /\ remote \in [Urls -> CacheSources]
    /\ cache = [u \in Urls |-> NoEntry]
    /\ CSV_URL = "u1"
    /\ reload_btn = FALSE
    /\ pc = "reload"
    /\ must_refetch = {}
    /\ Blank

\* time passes
Tick(d) ==
    /\ now + d <= MaxNow
    /\ now' = now + d
    /\ UNCHANGED << variant, remote, CSV_URL, cache, must_refetch, reload_btn,
                    pc, fetched, error, Frames, Outputs >>

\* the publisher replaces the file behind a URL, or the URL stops answering
RemoteChange(u, src) ==
    /\ remote[u] # src
    /\ remote' = [remote EXCEPT ![u] = src]
    /\ UNCHANGED << variant, now, CSV_URL, cache, must_refetch, reload_btn,
                    pc, fetched, error, Frames, Outputs >>

\* app.py without secret and environment variable: the user types the URL
\* into the sidebar field, which reruns the script
TypeUrl(u) ==
    /\ variant = "app"
    /\ CSV_URL # u
    /\ CSV_URL' = u
    /\ pc' = "reload"
    /\ reload_btn' = FALSE
    /\ FreshRun
    /\ UNCHANGED << variant, now, remote, cache, must_refetch >>

NextCache ==
    \/ \E clicked \in BOOLEAN : UserRerun(clicked)
    \/ \E u \in Urls : TypeUrl(u)
    \/ ReloadStep
    \/ LoadStep
    \/ CheckStep
    \/ \E d \in TickSteps : Tick(d)
    \/ \E u \in Urls, src \in CacheSources : RemoteChange(u, src)

SpecCache == InitCache /\ [][NextCache]_vars

\* C4: a read of load_data(url) runs no fetch exactly when the cache holds an
\* entry for that url with now - fetch_time < 60, and then returns that
\* entry's table; otherwise it fetches, and a fetch that succeeds replaces
\* the entry of that url (and of no other) by the new table stamped now;
\* after load_data.clear() no url has an entry until it is fetched again, so
\* no read returns a table fetched before the reload.
C4_CacheTTLAndReload ==
    /\ [](\A u \in must_refetch : ~cache[u].present)
    /\ [][ pc = "load" /\ pc' \in { "check", "halted" } =>
             LET e     == cache[CSV_URL]
                 fresh == e.present /\ now - e.t < 60
             IN  /\ fetched' <=> ~fresh
                 /\ fresh => /\ df' = e.df
                             /\ cache' = cache
                             /\ pc' = "check"
                 /\ ~fresh /\ pc' = "check" =>
                      /\ df' \in load_data(remote[CSV_URL].table)
                      /\ cache'[CSV_URL] = Entry(df', now)
                      /\ CSV_URL \notin must_refetch'
                 /\ \A u \in Urls \ { CSV_URL } : cache'[u] = cache[u]
       ]_vars

\* an entry aged 59 s was served although the source had changed meanwhile
C4_Witness ==
    /\ pc = "check"
    /\ ~fetched
    /\ now - cache[CSV_URL].t = 59
    /\ remote[CSV_URL].kind = "ok"
    /\ df \notin load_data(remote[CSV_URL].table)

\* an entry aged exactly 60 s was not served
C4_WitnessExpired ==
    /\ pc = "check"
    /\ fetched
    /\ now = 60
    /\ cache[CSV_URL].t = 60
    /\ cache["u2"].present /\ cache["u2"].t = 0

\* a reload emptied a cache that held fresh entries
C4_WitnessReload ==
    /\ pc = "check"
    /\ fetched
    /\ now = 30
    /\ must_refetch = { "u2" }
    /\ cache["u1"].t = 30

====
